---- MODULE Spec2Model ----
(***************************************************************************)
(* Model of the comment controller of comments-hub-backend                 *)
(* (src/src/controllers/commentController.ts) over the Comment model       *)
(* (src/unnamed/part_004).                                                 *)
(*                                                                         *)
(* The store is the MongoDB collection of comments.  Every handler is an   *)
(* async function: each `await` on the store is one atomic step on the     *)
(* store, and the synchronous code between two awaits belongs to the step  *)
(* of the await that precedes it.  Several requests may be in flight, one  *)
(* per slot.                                                               *)
(*                                                                         *)
(* Document.save() of a document obtained with findById sends only the     *)
(* paths the handler modified: an assigned array is sent as $set guarded   *)
(* by the document version __v, an array .push() is sent as $push which    *)
(* only increments __v, a scalar is sent as $set and leaves __v alone.     *)
(***************************************************************************)
EXTENDS Naturals, Sequences, FiniteSets

(* comments: the collection, comments[i] the document with _id i           *)
(* reqs:     per slot, the request being handled: its position, the        *)
(*           document it fetched as the handler modified it, the paths it  *)
(*           modified, whether its save() found the stored document        *)
(*           changed since it was fetched, and after the response its      *)
(*           status                                                        *)
(* issued, overlaps: requests that have arrived, and those among them that *)
(*           arrived while another was in flight                           *)
(* serial:   whether the client sends one request at a time                *)
(* lastReq:  in a serial run, the successful reaction answered last        *)
(* socketService: "ready" once initializeSocket has run, as it has when    *)
(*           server.ts starts the server; "failing" when getSocketService  *)
(*           or the emit throws                                            *)
(* users:    the stored users, in insertion order                          *)
(* io:       the socket.io server: its sockets with their rooms, and the   *)
(*           events emitted through it                                     *)
(* The routes put `authenticate` before every mutating handler, so a       *)
(* handler always runs with req.user set to one of Users.                  *)
VARIABLES comments, reqs, issued, overlaps, serial, lastReq, socketService, users, io

vars == <<comments, reqs, issued, overlaps, serial, lastReq, socketService, users, io>>

(* ---------------------------------------------------------------- bounds *)
(* comments ever created; requests in flight at once; requests issued in a  *)
(* run where requests may overlap, and in a serial run; arrivals that find  *)
(* another request in flight                                                *)
MaxComments == 2
MaxInFlight == 2
MaxRequests == 3
MaxSerialRequests == 4
MaxOverlaps == 1
(* comments in a store that is only read *)
MaxListed == 3
(* requests received in a run where each carries an authorization header *)
MaxAuthRequests == 3

Users == {"u1", "u2"}
NoUser == "anonymous"
(* the identities a register request may carry, after the route's trim and  *)
(* normalizeEmail                                                           *)
Usernames == {"ann", "bob"}
Emails == {"a@x", "b@x"}
(* the users whose tokens the comment requests carry are registered *)
Registered ==
    <<[username |-> "u1", email |-> "u1@x"], [username |-> "u2", email |-> "u2@x"]>>
Pages == {"p1"}
(* the texts a comment is created with, and the texts an edit may carry *)
NewContents == {"a"}
Contents == {"a", "b"}
Slots == 1..MaxInFlight
(* the request bodies the validation sees: content that is empty, blank,    *)
(* padded, plain, and longer than the maximum; page ids likewise            *)
RawContents == {"", " ", " a ", "a", "b", "long"}
RawPages == {"", " ", "p1"}
MinContentLength == 1
MaxContentLength == 2000
NoId == 0

(* ------------------------------------------------------ the Comment model *)
(* createdAt is the millisecond of the insert, counted from the first;      *)
(* where requests are modelled each insert falls in a later millisecond,    *)
(* the stores listed by ReadInit also hold comments of the same millisecond *)
NewComment(id, content, author, pageId, parent) ==
    [id |-> id, content |-> content, author |-> author, pageId |-> pageId,
     likes |-> <<>>, dislikes |-> <<>>, parentComment |-> parent,
     replies |-> <<>>, isDeleted |-> FALSE, v |-> 0, createdAt |-> id]

NoDoc == NewComment(NoId, "", NoUser, "", NoId)

(* a request without an authorization header *)
NoHeader == [scheme |-> "", token |-> ""]

(* no event was published *)
NoEvent == [kind |-> "", room |-> <<>>]

(* a socket slot with no connection, and a server with no connection *)
SocketIds == {1, 2}
RoomPages == {"p1", "p2"}
Disconnected ==
    [connected |-> FALSE, user |-> NoUser, rooms |-> {},
     lastSent |-> [p \in RoomPages |-> "none"], received |-> 0, inbox |-> NoEvent]
NoSockets == [sockets |-> [k \in SocketIds |-> Disconnected], emitted |-> 0, last |-> NoEvent]

Clean == [likes |-> "none", dislikes |-> "none", content |-> FALSE, isDeleted |-> FALSE]

IdleReq ==
    [pc |-> "idle", op |-> "none", user |-> NoUser, cid |-> NoId, content |-> "",
     pageId |-> "", parent |-> NoId, doc |-> NoDoc, dirty |-> Clean,
     already |-> FALSE, wasLiked |-> FALSE, wasDisliked |-> FALSE,
     stale |-> FALSE, status |-> 0, emitted |-> 0,
     sort |-> "", page |-> 0, limit |-> 0, items |-> <<>>, total |-> 0,
     username |-> "", email |-> "", auth |-> NoHeader, bodyAuthor |-> NoUser,
     event |-> NoEvent]

NoReq == [op |-> "none", user |-> NoUser, cid |-> NoId, liked |-> FALSE, disliked |-> FALSE]

Exists(id) == id \in 1..Len(comments)

(* the ids a request may name: those of the stored comments and one id of   *)
(* no comment                                                               *)
Ids == 1..MaxComments
Nameable(id) == id \in Ids /\ id <= Len(comments) + 1

(* Comment.findById: the stored document, or null *)
findById(id) == IF Exists(id) THEN comments[id] ELSE NoDoc

(* Array.prototype.some with ObjectId.equals *)
Some(arr, u) == \E i \in DOMAIN arr : arr[i] = u

(* Array.prototype.filter keeping the ids that differ from u *)
Differs(u, x) == x # u
Filter(arr, u) == SelectSeq(arr, LAMBDA x : Differs(u, x))

Last(arr) == arr[Len(arr)]

(* ------------------------------------------- the handlers' in-memory edits *)
(* likeComment, the toggle on the fetched document.  An assignment of a     *)
(* filtered array marks the path modified (a $set) only when the array      *)
(* changed; push() records a $push of the pushed id.                        *)
(* faulty variant: the like does not remove the user's dislike *)
LikedDocKeepsDislike(doc, u) ==
    IF Some(doc.likes, u)
    THEN [doc EXCEPT !.likes = Filter(@, u)]
    ELSE [doc EXCEPT !.likes = Append(@, u)]

(* faulty variant: a second like does not remove the like *)
LikedDocNeverRemoves(doc, u) ==
    IF Some(doc.likes, u)
    THEN doc
    ELSE [doc EXCEPT !.likes = Append(@, u), !.dislikes = Filter(@, u)]

LikedDoc(doc, u) ==
    IF Some(doc.likes, u)
    THEN [doc EXCEPT !.likes = Filter(@, u)]
    ELSE [doc EXCEPT !.likes = Append(@, u), !.dislikes = Filter(@, u)]

LikedDirty(doc, u) ==
    IF Some(doc.likes, u)
    THEN [Clean EXCEPT !.likes = "set"]
    ELSE [Clean EXCEPT !.likes = "push",
                       !.dislikes = IF Filter(doc.dislikes, u) # doc.dislikes
                                    THEN "set" ELSE "none"]

(* dislikeComment, the toggle on the fetched document *)
(* faulty variant: the dislike does not remove the user's like *)
DislikedDocKeepsLike(doc, u) ==
    IF Some(doc.dislikes, u)
    THEN [doc EXCEPT !.dislikes = Filter(@, u)]
    ELSE [doc EXCEPT !.dislikes = Append(@, u)]

DislikedDoc(doc, u) ==
    IF Some(doc.dislikes, u)
    THEN [doc EXCEPT !.dislikes = Filter(@, u)]
    ELSE [doc EXCEPT !.dislikes = Append(@, u), !.likes = Filter(@, u)]

DislikedDirty(doc, u) ==
    IF Some(doc.dislikes, u)
    THEN [Clean EXCEPT !.dislikes = "set"]
    ELSE [Clean EXCEPT !.dislikes = "push",
                       !.likes = IF Filter(doc.likes, u) # doc.likes
                                 THEN "set" ELSE "none"]

(* faulty variant: no author check *)
IsAuthorAnyone(doc, u) == TRUE

(* the author check of updateComment and deleteComment *)
IsAuthor(doc, u) == doc.author = u

(* the null check after findById *)
NotFound(doc) == doc.id = NoId

(* ------------------------------------------------------- Document.save() *)
(* "ALL": the update carries __v in its filter and increments it;           *)
(* "INC": the update increments __v; "NONE": __v is not involved.           *)
VersionMode(dirty) ==
    IF dirty.likes = "set" \/ dirty.dislikes = "set" THEN "ALL"
    ELSE IF dirty.likes = "push" \/ dirty.dislikes = "push" THEN "INC"
    ELSE "NONE"

(* faulty variant: no update carries __v in its filter *)
SaveMatchesUnversioned(db, doc, dirty) == TRUE

(* whether the update's filter matches the stored document *)
SaveMatches(db, doc, dirty) == VersionMode(dirty) = "ALL" => db.v = doc.v

SavedArray(stored, mine, how) ==
    CASE how = "push" -> Append(stored, Last(mine))
      [] how = "set" -> mine
      [] OTHER -> stored

(* faulty variant: save() writes the arrays of the handler's document      *)
(* whether or not the handler modified them                                *)
SavedWritesArrays(db, doc, dirty) ==
    [db EXCEPT !.likes = doc.likes,
               !.dislikes = doc.dislikes,
               !.content = IF dirty.content THEN doc.content ELSE @,
               !.isDeleted = IF dirty.isDeleted THEN doc.isDeleted ELSE @,
               !.v = IF VersionMode(dirty) = "NONE" THEN @ ELSE @ + 1]

(* faulty variant: save() writes isDeleted of the handler's document       *)
(* whether or not the handler modified it                                  *)
SavedWritesIsDeleted(db, doc, dirty) ==
    [db EXCEPT !.likes = SavedArray(@, doc.likes, dirty.likes),
               !.dislikes = SavedArray(@, doc.dislikes, dirty.dislikes),
               !.content = IF dirty.content THEN doc.content ELSE @,
               !.isDeleted = doc.isDeleted,
               !.v = IF VersionMode(dirty) = "NONE" THEN @ ELSE @ + 1]

(* faulty variant: a soft delete also clears the reactions *)
SavedClearsReactions(db, doc, dirty) ==
    [db EXCEPT !.likes = IF dirty.isDeleted THEN <<>> ELSE SavedArray(@, doc.likes, dirty.likes),
               !.dislikes = IF dirty.isDeleted THEN <<>>
                            ELSE SavedArray(@, doc.dislikes, dirty.dislikes),
               !.content = IF dirty.content THEN doc.content ELSE @,
               !.isDeleted = IF dirty.isDeleted THEN doc.isDeleted ELSE @,
               !.v = IF VersionMode(dirty) = "NONE" THEN @ ELSE @ + 1]

(* faulty variant: a soft delete also detaches a reply from its parent *)
SavedDetaches(db, doc, dirty) ==
    [db EXCEPT !.likes = SavedArray(@, doc.likes, dirty.likes),
               !.dislikes = SavedArray(@, doc.dislikes, dirty.dislikes),
               !.content = IF dirty.content THEN doc.content ELSE @,
               !.isDeleted = IF dirty.isDeleted THEN doc.isDeleted ELSE @,
               !.parentComment = IF dirty.isDeleted THEN NoId ELSE @,
               !.v = IF VersionMode(dirty) = "NONE" THEN @ ELSE @ + 1]

(* the stored document after the update that save() sends *)
Saved(db, doc, dirty) ==
    [db EXCEPT !.likes = SavedArray(@, doc.likes, dirty.likes),
               !.dislikes = SavedArray(@, doc.dislikes, dirty.dislikes),
               !.content = IF dirty.content THEN doc.content ELSE @,
               !.isDeleted = IF dirty.isDeleted THEN doc.isDeleted ELSE @,
               !.v = IF VersionMode(dirty) = "NONE" THEN @ ELSE @ + 1]

(* whether the stored document differs from the handler's document on a    *)
(* path the handler did not modify: another request has saved since the    *)
(* handler's findById                                                      *)
Stale(db, doc, dirty) ==
    \/ dirty.likes = "none" /\ db.likes # doc.likes
    \/ dirty.dislikes = "none" /\ db.dislikes # doc.dislikes
    \/ ~dirty.content /\ db.content # doc.content
    \/ ~dirty.isDeleted /\ db.isDeleted # doc.isDeleted

(* faulty variant: the hook pushes the reply whether or not it is there *)
AddToSetAppends(arr, x) == Append(arr, x)

(* $addToSet of the post-save hook *)
AddToSet(arr, x) == IF Some(arr, x) THEN arr ELSE Append(arr, x)

(* ------------------------------------------------------------- validation *)
(* String.trim on the request bodies of RawContents and RawPages *)
Trim(x) ==
    CASE x = " " -> ""
      [] x = " a " -> "a"
      [] OTHER -> x

(* the length of those strings *)
Length(x) ==
    CASE x = "" -> 0
      [] x = " a " -> 3
      [] x = "long" -> MaxContentLength + 1
      [] OTHER -> 1

(* faulty variant: no upper limit *)
ValidContentNoMax(content) ==
    Length(Trim(content)) >= MinContentLength

(* body('content').trim().isLength({ min: 1, max: 2000 }) *)
ValidContent(content) ==
    /\ Length(Trim(content)) >= MinContentLength
    /\ Length(Trim(content)) <= MaxContentLength

(* body('pageId').trim().notEmpty() *)
ValidPageId(pageId) == Trim(pageId) # ""

(* the validators of the Comment schema, which run in Comment.create and in *)
(* save(): content after trim has 1 to 2000 characters, pageId is required  *)
SchemaValid(doc) ==
    /\ Length(Trim(doc.content)) >= MinContentLength
    /\ Length(Trim(doc.content)) <= MaxContentLength
    /\ doc.pageId # ""

(* ------------------------------------------------------------------ reads *)
Sorts == {"newest", "mostLiked", "mostDisliked"}
PageNums == 1..3
Limits == 1..2

(* the sort keys of getComments, each descending *)
sortCriteria(sort) ==
    IF sort = "mostLiked" THEN <<[key |-> "likesCount", dir |-> "desc"],
                                 [key |-> "createdAt", dir |-> "desc"]>>
    ELSE IF sort = "mostDisliked" THEN <<[key |-> "dislikesCount", dir |-> "desc"],
                                         [key |-> "createdAt", dir |-> "desc"]>>
    ELSE <<[key |-> "createdAt", dir |-> "desc"]>>

(* the sort key of getReplies *)
repliesCriteria == <<[key |-> "createdAt", dir |-> "asc"]>>

(* the value of a sort key: the $size of the array for a count *)
Field(d, key) ==
    CASE key = "likesCount" -> Len(d.likes)
      [] key = "dislikesCount" -> Len(d.dislikes)
      [] OTHER -> d.createdAt

(* faulty variant: the first key decides alone *)
PrecedesFirstKeyOnly(a, b, keys) ==
    IF keys = <<>> THEN FALSE
    ELSE LET k == Head(keys)
         IN IF Field(a, k.key) # Field(b, k.key)
            THEN IF k.dir = "desc" THEN Field(a, k.key) > Field(b, k.key)
                 ELSE Field(a, k.key) < Field(b, k.key)
            ELSE FALSE

(* whether a sorts strictly before b: the first key on which they differ    *)
(* decides                                                                  *)
RECURSIVE Precedes(_, _, _)
Precedes(a, b, keys) ==
    IF keys = <<>> THEN FALSE
    ELSE LET k == Head(keys)
         IN IF Field(a, k.key) # Field(b, k.key)
            THEN IF k.dir = "desc" THEN Field(a, k.key) > Field(b, k.key)
                 ELSE Field(a, k.key) < Field(b, k.key)
            ELSE Precedes(a, b, Tail(keys))

RECURSIVE Insert(_, _, _)
Insert(seq, d, keys) ==
    IF seq = <<>> THEN <<d>>
    ELSE IF Precedes(d, Head(seq), keys) THEN <<d>> \o seq
    ELSE <<Head(seq)>> \o Insert(Tail(seq), d, keys)

(* the store's sort: documents equal on every key stay in the order the     *)
(* store scanned them                                                       *)
RECURSIVE Sort(_, _)
Sort(seq, keys) ==
    IF seq = <<>> THEN <<>>
    ELSE Insert(Sort(Tail(seq), keys), Head(seq), keys)

(* the orders in which the store may scan the documents of the set S: it    *)
(* guarantees none                                                          *)
Scans(S) ==
    {[i \in DOMAIN f |-> comments[f[i]]] :
        f \in {g \in [1..Cardinality(S) -> S] : \A i, j \in DOMAIN g : g[i] = g[j] => i = j}}

Skip(seq, n) == SubSeq(seq, n + 1, Len(seq))
Limit(seq, n) == SubSeq(seq, 1, IF n < Len(seq) THEN n ELSE Len(seq))

(* faulty variant: deleted comments match *)
MatchIgnoresDeleted(d, pageId) ==
    d.pageId = pageId /\ d.parentComment = NoId

(* the query of getComments *)
Match(d, pageId) ==
    d.pageId = pageId /\ ~d.isDeleted /\ d.parentComment = NoId

Matching(pageId) == {c \in 1..Len(comments) : Match(comments[c], pageId)}

countDocuments(pageId) == Cardinality(Matching(pageId))

(* the aggregation pipeline after a scan: $sort, $skip, $limit *)
aggregate(scan, sort, skip, limit) ==
    Limit(Skip(Sort(scan, sortCriteria(sort)), skip), limit)

(* the pagination helper: the page of the sorted matches and their count *)
paginate(scan, page, pageSize, keys) ==
    [items |-> Limit(Skip(Sort(scan, keys), (page - 1) * pageSize), pageSize),
     totalItems |-> Len(scan)]

(* the lists getComments may answer with when it reads the store as it is *)
Listings(pageId, sort, page, limit) ==
    IF sort = "newest"
    THEN {paginate(scan, page, limit, sortCriteria(sort)).items : scan \in Scans(Matching(pageId))}
    ELSE {aggregate(scan, sort, (page - 1) * limit, limit) : scan \in Scans(Matching(pageId))}

(* the query of getReplies *)
IsReplyTo(d, commentId) == d.parentComment = commentId /\ ~d.isDeleted

RepliesTo(commentId) == {c \in 1..Len(comments) : IsReplyTo(comments[c], commentId)}

(* the lists getReplies may answer with *)
ReplyListings(commentId) ==
    {Sort(scan, repliesCriteria) : scan \in Scans(RepliesTo(commentId))}

(* ------------------------------------------------------------- responses *)
(* the request after its response was sent: status and number of events    *)
Responded(r, status, emitted) ==
    [IdleReq EXCEPT !.pc = "done", !.op = r.op, !.user = r.user, !.cid = r.cid,
                    !.status = status, !.emitted = emitted,
                    !.auth = r.auth, !.bodyAuthor = r.bodyAuthor]

(* the events that reach the page room: the handler's try/catch around the  *)
(* emit swallows what getSocketService or the emit throws                   *)
Emitted == IF socketService = "ready" THEN 1 ELSE 0

(* faulty variant: a reaction always reports that it was added *)
MessageAlwaysAdded(op, already) ==
    IF op = "like" THEN "Comment liked" ELSE "Comment disliked"

(* the message of the response of likeComment and dislikeComment *)
Message(op, already) ==
    IF op = "like"
    THEN (IF already THEN "Like removed" ELSE "Comment liked")
    ELSE (IF already THEN "Dislike removed" ELSE "Comment disliked")

(* the event each handler emits *)
EventKind(op) ==
    CASE op = "create" -> "newComment"
      [] op = "update" -> "updateComment"
      [] op = "delete" -> "deleteComment"
      [] op = "like" -> "likeComment"
      [] op = "dislike" -> "dislikeComment"

(* faulty variant: every event goes to one room *)
RoomOfAll(pageId) == <<"page:", "">>

(* the room of a page, `page:${pageId}` *)
Room(pageId) == <<"page:", pageId>>

(* faulty variant: a failing emit fails the request *)
SucceededIfEmitted(r) ==
    IF socketService = "ready"
    THEN Responded(r, IF r.op = "create" THEN 201 ELSE 200, 1)
    ELSE Responded(r, 500, 0)

(* the success path after the last store access: emit to the page room,     *)
(* then send the response                                                   *)
Succeeded(r) ==
    [Responded(r, IF r.op = "create" THEN 201 ELSE 200, Emitted) EXCEPT
        !.event = IF Emitted = 1
                  THEN [kind |-> EventKind(r.op), room |-> Room(r.doc.pageId)]
                  ELSE NoEvent]

(* a request is in flight from its arrival to its response *)
InFlight(t) == reqs[t].pc \notin {"idle", "done"}

Overlapping == \E t \in Slots : InFlight(t)

(* a request arrives in the lowest free slot, after the responses already   *)
(* sent were received; in a serial run only when no other request is in     *)
(* flight                                                                   *)
CanBegin(s) ==
    /\ issued < (IF serial THEN MaxSerialRequests ELSE MaxRequests)
    /\ reqs[s].pc = "idle"
    /\ \A t \in Slots : reqs[t].pc # "done" /\ (t < s => reqs[t].pc # "idle")
    /\ Overlapping => ~serial /\ overlaps < MaxOverlaps

(* the arrival is counted, and counted as an overlap when it is one *)
Arrived ==
    /\ issued' = issued + 1
    /\ overlaps' = IF Overlapping THEN overlaps + 1 ELSE overlaps

(* the handler starts on the request as it was received *)
Start(s, op, u, c) ==
    [reqs[s] EXCEPT !.op = op, !.user = u, !.cid = c]

(* --------------------------------------------------------------- handlers *)
(* what a serial client remembers of the request r once it is answered:     *)
(* a successful reaction, with the user's membership as the handler read it *)
Remembered(r, status) ==
    IF r.op \in {"like", "dislike"} /\ status = 200
    THEN [op |-> r.op, user |-> r.user, cid |-> r.cid,
          liked |-> r.wasLiked, disliked |-> r.wasDisliked]
    ELSE NoReq

(* slot s moves from request record r to r2 *)
Step(s, r, r2) ==
    /\ reqs' = [reqs EXCEPT ![s] = r2]
    /\ lastReq' = IF serial /\ r2.pc = "done" THEN Remembered(r, r2.status) ELSE lastReq

(* the comments stored or about to be inserted *)
Planned == Len(comments) + Cardinality({t \in Slots : reqs[t].pc = "create"})

(* createComment up to the parent check *)
createComment(s, u, content, pageId, parent) ==
    /\ CanBegin(s)
    /\ Planned < MaxComments
    /\ parent = NoId \/ Nameable(parent)
    /\ LET r == [Start(s, "create", u, NoId) EXCEPT
                    !.content = content, !.pageId = pageId, !.parent = parent]
       IN Step(s, r, IF parent # NoId /\ NotFound(findById(parent))
                     THEN Responded(r, 404, 0)
                     ELSE [r EXCEPT !.pc = "create"])
    /\ Arrived
    /\ UNCHANGED <<comments, serial, socketService, users, io>>

(* what follows a completed save(): the post-save hook when the document     *)
(* is a reply, else the re-fetch, or for deleteComment the response          *)
AfterSave(r) ==
    IF r.doc.parentComment # NoId THEN [r EXCEPT !.pc = "hook"]
    ELSE IF r.op = "delete" THEN Succeeded(r)
    ELSE [r EXCEPT !.pc = "fetch"]

(* Comment.create: validation by the schema, which a ValidationError fails  *)
(* into the handler's catch, and the insert                                 *)
create(s) ==
    /\ reqs[s].pc = "create"
    /\ LET r == reqs[s]
           id == Len(comments) + 1
           doc == NewComment(id, Trim(r.content), r.user, r.pageId, r.parent)
       IN IF SchemaValid(doc)
          THEN /\ comments' = Append(comments, doc)
               /\ Step(s, r, AfterSave([r EXCEPT !.cid = id, !.doc = doc]))
          ELSE /\ Step(s, r, Responded(r, 500, 0))
               /\ UNCHANGED comments
    /\ UNCHANGED <<issued, overlaps, serial, socketService, users, io>>

(* updateComment up to save() *)
updateComment(s, u, c, content) ==
    /\ CanBegin(s)
    /\ Nameable(c)
    /\ LET r == [Start(s, "update", u, c) EXCEPT !.content = content]
           doc == findById(c)
       IN Step(s, r, IF NotFound(doc) THEN Responded(r, 404, 0)
                     ELSE IF ~IsAuthor(doc, u) THEN Responded(r, 403, 0)
                     ELSE [r EXCEPT !.pc = "save",
                                    !.doc = [doc EXCEPT !.content = Trim(content)],
                                    !.dirty = [Clean EXCEPT !.content = (Trim(content) # doc.content)]])
    /\ Arrived
    /\ UNCHANGED <<comments, serial, socketService, users, io>>

(* deleteComment up to save() *)
deleteComment(s, u, c) ==
    /\ CanBegin(s)
    /\ Nameable(c)
    /\ LET r == Start(s, "delete", u, c)
           doc == findById(c)
       IN Step(s, r, IF NotFound(doc) THEN Responded(r, 404, 0)
                     ELSE IF ~IsAuthor(doc, u) THEN Responded(r, 403, 0)
                     ELSE [r EXCEPT !.pc = "save",
                                    !.doc = [doc EXCEPT !.isDeleted = TRUE],
                                    !.dirty = [Clean EXCEPT !.isDeleted = ~doc.isDeleted]])
    /\ Arrived
    /\ UNCHANGED <<comments, serial, socketService, users, io>>

(* likeComment up to save() *)
likeComment(s, u, c) ==
    /\ CanBegin(s)
    /\ Nameable(c)
    /\ LET r == Start(s, "like", u, c)
           doc == findById(c)
       IN Step(s, r, IF NotFound(doc) THEN Responded(r, 404, 0)
                     ELSE [r EXCEPT !.pc = "save",
                                    !.doc = LikedDoc(doc, u),
                                    !.dirty = LikedDirty(doc, u),
                                    !.already = Some(doc.likes, u),
                                    !.wasLiked = Some(doc.likes, u),
                                    !.wasDisliked = Some(doc.dislikes, u)])
    /\ Arrived
    /\ UNCHANGED <<comments, serial, socketService, users, io>>

(* dislikeComment up to save() *)
dislikeComment(s, u, c) ==
    /\ CanBegin(s)
    /\ Nameable(c)
    /\ Nameable(c)
    /\ LET r == Start(s, "dislike", u, c)
           doc == findById(c)
       IN Step(s, r, IF NotFound(doc) THEN Responded(r, 404, 0)
                     ELSE [r EXCEPT !.pc = "save",
                                    !.doc = DislikedDoc(doc, u),
                                    !.dirty = DislikedDirty(doc, u),
                                    !.already = Some(doc.dislikes, u),
                                    !.wasLiked = Some(doc.likes, u),
                                    !.wasDisliked = Some(doc.dislikes, u)])
    /\ Arrived
    /\ UNCHANGED <<comments, serial, socketService, users, io>>

(* comment.save(): the update reaches the store, or fails with a            *)
(* VersionError or, for a content the schema refuses, a ValidationError,    *)
(* which the handler's catch answers with 500                               *)
save(s) ==
    /\ reqs[s].pc = "save"
    /\ LET r == reqs[s]
           db == comments[r.cid]
       IN IF SaveMatches(db, r.doc, r.dirty) /\ (r.dirty.content => SchemaValid(r.doc))
          THEN /\ comments' = [comments EXCEPT ![r.cid] = Saved(db, r.doc, r.dirty)]
               /\ Step(s, r, AfterSave([r EXCEPT !.stale = Stale(db, r.doc, r.dirty)]))
          ELSE /\ Step(s, r, Responded(r, 500, 0))
               /\ UNCHANGED comments
    /\ UNCHANGED <<issued, overlaps, serial, socketService, users, io>>

(* commentSchema.post('save'): add the reply to its parent's replies *)
postSave(s) ==
    /\ reqs[s].pc = "hook"
    /\ LET r == reqs[s]
           p == r.doc.parentComment
       IN /\ comments' = IF Exists(p)
                         THEN [comments EXCEPT ![p].replies = AddToSet(@, r.doc.id)]
                         ELSE comments
          /\ Step(s, r, IF r.op = "delete" THEN Succeeded(r) ELSE [r EXCEPT !.pc = "fetch"])
    /\ UNCHANGED <<issued, overlaps, serial, socketService, users, io>>

(* the re-fetch of the saved comment, the emit and the response *)
refetch(s) ==
    /\ reqs[s].pc = "fetch"
    /\ Step(s, reqs[s], Succeeded(reqs[s]))
    /\ UNCHANGED <<comments, issued, overlaps, serial, socketService, users, io>>

(* an await on the store rejects: Comment.create or save() before anything  *)
(* is written, the findByIdAndUpdate of the post-save hook, or the          *)
(* re-fetch; the handler's catch answers 500                                *)
fail(s) ==
    /\ reqs[s].pc \in {"create", "save", "hook", "fetch"}
    /\ Step(s, reqs[s], Responded(reqs[s], 500, 0))
    /\ UNCHANGED <<comments, issued, overlaps, serial, socketService, users, io>>

(* the client has received the response; the slot is free again *)
Retire(s) ==
    /\ reqs[s].pc = "done"
    /\ reqs' = [reqs EXCEPT ![s] = IdleReq]
    /\ UNCHANGED <<comments, issued, overlaps, serial, lastReq, socketService, users, io>>

Store0 ==
    /\ comments = <<>>
    /\ reqs = [s \in Slots |-> IdleReq]
    /\ issued = 0
    /\ overlaps = 0
    /\ lastReq = NoReq
    /\ users = Registered
    /\ io = NoSockets

Init == Store0 /\ serial = FALSE /\ socketService = "ready"

SerialInit == Store0 /\ serial = TRUE /\ socketService = "ready"

(* one request at a time while the socket service fails *)
NoSocketInit == Store0 /\ serial = TRUE /\ socketService = "failing"

Next ==
    \E s \in Slots :
        \/ \E u \in Users, content \in NewContents, pageId \in Pages, parent \in {NoId} \cup Ids :
              createComment(s, u, content, pageId, parent)
        \/ create(s)
        \/ \E u \in Users, c \in Ids, content \in Contents : updateComment(s, u, c, content)
        \/ \E u \in Users, c \in Ids : deleteComment(s, u, c)
        \/ \E u \in Users, c \in Ids : likeComment(s, u, c)
        \/ \E u \in Users, c \in Ids : dislikeComment(s, u, c)
        \/ save(s)
        \/ postSave(s)
        \/ refetch(s)
        \/ Retire(s)

(* requests may overlap *)
Spec == Init /\ [][Next]_vars

(* requests run one at a time *)
SerialSpec == SerialInit /\ [][Next]_vars

(* ----------------------------------------------------- reading a store *)
(* the response of a read: the list and the total it reports *)
Listed(r, items, total) ==
    [r EXCEPT !.pc = "done", !.status = 200, !.items = items, !.total = total]

(* a client pages through one listing with two requests, the second for     *)
(* another page number than the first, sent when the first is answered      *)
Readers == {1, 2}

CanRead(s) ==
    /\ s \in Readers
    /\ reqs[s].pc = "idle"
    /\ \A t \in Readers : t < s => reqs[t].pc = "done"

SameListing(s, pageId, sort, page, limit) ==
    \A t \in Readers : t < s =>
        /\ reqs[t].op = "getComments"
        /\ reqs[t].pageId = pageId /\ reqs[t].sort = sort /\ reqs[t].limit = limit
        /\ reqs[t].page # page

(* getComments: through the pagination helper for sort = newest, else up to *)
(* countDocuments                                                           *)
getComments(s, pageId, sort, page, limit) ==
    /\ CanRead(s)
    /\ SameListing(s, pageId, sort, page, limit)
    /\ LET r == [IdleReq EXCEPT !.op = "getComments", !.pageId = pageId,
                                !.sort = sort, !.page = page, !.limit = limit]
       IN IF sort = "newest"
          THEN \E scan \in Scans(Matching(pageId)) :
                  LET result == paginate(scan, page, limit, sortCriteria(sort))
                  IN reqs' = [reqs EXCEPT ![s] = Listed(r, result.items, result.totalItems)]
          ELSE reqs' = [reqs EXCEPT ![s] = [r EXCEPT !.pc = "aggregate",
                                                    !.total = countDocuments(pageId)]]
    /\ UNCHANGED <<comments, issued, overlaps, serial, lastReq, socketService, users, io>>

(* Comment.aggregate of getComments and the response *)
aggregateComments(s) ==
    /\ reqs[s].pc = "aggregate"
    /\ LET r == reqs[s]
       IN \E scan \in Scans(Matching(r.pageId)) :
             reqs' = [reqs EXCEPT ![s] =
                        Listed(r, aggregate(scan, r.sort, (r.page - 1) * r.limit, r.limit),
                               r.total)]
    /\ UNCHANGED <<comments, issued, overlaps, serial, lastReq, socketService, users, io>>

(* getReplies *)
getReplies(s, commentId) ==
    /\ CanRead(s)
    /\ \A t \in Readers : t < s => reqs[t].op = "getReplies"
    /\ \E items \in ReplyListings(commentId) :
          reqs' = [reqs EXCEPT ![s] =
                     Listed([IdleReq EXCEPT !.op = "getReplies", !.cid = commentId],
                            items, Len(items))]
    /\ UNCHANGED <<comments, issued, overlaps, serial, lastReq, socketService, users, io>>

(* the comments of a store that is read: comment i is a top-level comment   *)
(* liked by one user or disliked by one user, a soft-deleted one, or a      *)
(* reply to comment 1, and was created in the millisecond of comment i - 1  *)
(* or in a later one                                                        *)
Kinds == {"liked", "disliked", "deleted", "reply"}

ListedIds == 1..MaxListed

ListedComment(i, kind, tie) ==
    [NewComment(i, "a", "u1", "p1", IF kind[i] = "reply" THEN 1 ELSE NoId) EXCEPT
        !.likes = IF kind[i] = "liked" THEN <<"u1">> ELSE <<>>,
        !.dislikes = IF kind[i] = "disliked" THEN <<"u2">> ELSE <<>>,
        !.v = IF kind[i] \in {"liked", "disliked"} THEN 1 ELSE 0,
        !.isDeleted = (kind[i] = "deleted"),
        !.replies = IF i = 1
                    THEN SelectSeq([j \in DOMAIN kind |-> j], LAMBDA j : kind[j] = "reply")
                    ELSE <<>>,
        !.createdAt = 1 + Cardinality({j \in 2..i : ~tie[j]})]

ReadInit ==
    /\ \E n \in 0..MaxListed :
          \E kind \in [1..n -> Kinds], tie \in [1..n -> BOOLEAN] :
             /\ n > 0 => kind[1] # "reply" /\ ~tie[1]
             /\ comments = [i \in 1..n |-> ListedComment(i, kind, tie)]
    /\ reqs = [s \in Slots |-> IdleReq]
    /\ issued = 0
    /\ overlaps = 0
    /\ lastReq = NoReq
    /\ serial = TRUE
    /\ socketService = "ready"
    /\ users = Registered
    /\ io = NoSockets

ReadNext ==
    \E s \in Slots :
        \/ \E pageId \in Pages, sort \in Sorts, page \in PageNums, limit \in Limits :
              getComments(s, pageId, sort, page, limit)
        \/ aggregateComments(s)
        \/ \E commentId \in ListedIds : getReplies(s, commentId)

(* read requests on a store that no request changes *)
ReadSpec == ReadInit /\ [][ReadNext]_vars

(* the validation middleware answers 400 before the handler runs *)
Rejected(s, op, u, c, content, pageId) ==
    /\ CanBegin(s)
    /\ LET r == Start(s, op, u, c)
       IN Step(s, r, [Responded(r, 400, 0) EXCEPT !.content = content, !.pageId = pageId])
    /\ Arrived
    /\ UNCHANGED <<comments, serial, socketService, users, io>>

(* POST /: createCommentValidation, validate, createComment; the sanitizers *)
(* leave the trimmed values in the request body                             *)
postComment(s, u, content, pageId, parent) ==
    IF ValidContent(content) /\ ValidPageId(pageId)
    THEN createComment(s, u, Trim(content), Trim(pageId), parent)
    ELSE Rejected(s, "create", u, NoId, content, pageId)

(* PUT /:commentId: updateCommentValidation, validate, updateComment *)
putComment(s, u, c, content) ==
    IF ValidContent(content)
    THEN updateComment(s, u, c, Trim(content))
    ELSE Rejected(s, "update", u, c, content, "")

ValidatedNext ==
    \E s \in Slots :
        \/ \E u \in Users, content \in RawContents \ {"b"}, pageId \in RawPages,
               parent \in {NoId} \cup Ids :
              postComment(s, u, content, pageId, parent)
        \/ \E u \in Users, c \in Ids, content \in RawContents : putComment(s, u, c, content)
        \/ create(s)
        \/ save(s)
        \/ postSave(s)
        \/ refetch(s)
        \/ Retire(s)

(* creations and edits, one at a time, with the request bodies as the       *)
(* client sends them                                                        *)
ValidatedSpec == SerialInit /\ [][ValidatedNext]_vars

(* requests run one at a time while the socket service fails *)
NoSocketSpec == NoSocketInit /\ [][Next]_vars

FaultyNext ==
    \/ Next
    \/ \E s \in Slots : fail(s)

(* requests run one at a time against a store whose operations may fail *)
FaultySpec == SerialInit /\ [][FaultyNext]_vars
(* ------------------------------------------------------------ properties *)
Stored == 1..Len(comments)

Liked(c, u) == Some(comments[c].likes, u)
Disliked(c, u) == Some(comments[c].dislikes, u)

(* no request is between its arrival and its response *)
AllQuiet == \A s \in Slots : ~InFlight(s)

NoDuplicates(arr) == \A i, j \in DOMAIN arr : arr[i] = arr[j] => i = j

(* C1: once the like/dislike requests on a comment have completed, no user  *)
(* is in both likes and dislikes, whatever the interleaving of their reads  *)
(* and saves.                                                               *)
C1_DisjointAfterOverlap ==
    AllQuiet => \A c \in Stored : \A u \in Users : ~(Liked(c, u) /\ Disliked(c, u))

(* C2: when requests run one at a time, likes and dislikes of every comment *)
(* are disjoint in every state.                                             *)
C2_DisjointSerial ==
    \A c \in Stored : \A u \in Users : ~(Liked(c, u) /\ Disliked(c, u))

(* a like has just replaced the same user's dislike *)
C2_Witness ==
    /\ lastReq.op = "like" /\ lastReq.disliked
    /\ Liked(lastReq.cid, lastReq.user)
    /\ ~Disliked(lastReq.cid, lastReq.user)

(* C3: likes and dislikes hold no user twice, also after two overlapping    *)
(* requests of the same kind by the same user.                              *)
C3_NoDuplicateReaction ==
    AllQuiet => \A c \in Stored :
        NoDuplicates(comments[c].likes) /\ NoDuplicates(comments[c].dislikes)
(* slot s holds a like/dislike request whose save() has succeeded and whose *)
(* response is not yet sent                                                 *)
ReactionSaved(s) ==
    /\ reqs[s].op \in {"like", "dislike"}
    /\ reqs[s].pc \in {"hook", "fetch"}

(* ... and it repeats the request the client was answered just before *)
SecondOfPair(s) ==
    /\ ReactionSaved(s)
    /\ lastReq.op = reqs[s].op
    /\ lastReq.user = reqs[s].user
    /\ lastReq.cid = reqs[s].cid

(* C4 as stated: the same reaction request twice in sequence leaves the     *)
(* user's membership in likes and in dislikes as it was before the first.   *)
C4_TwiceRestoresBoth ==
    \A s \in Slots : SecondOfPair(s) =>
        /\ Liked(reqs[s].cid, reqs[s].user) = lastReq.liked
        /\ Disliked(reqs[s].cid, reqs[s].user) = lastReq.disliked

(* C4 amended: the same reaction request twice in sequence leaves the       *)
(* user's membership in the set of that kind as it was before the first,    *)
(* and leaves the user out of the opposite set: the prior state is restored *)
(* when the user had no reaction or the reaction of that kind, and a user   *)
(* who had the opposite reaction ends with none.                            *)
C4_TwiceRestoresOwnKind ==
    \A s \in Slots : SecondOfPair(s) =>
        IF reqs[s].op = "like"
        THEN /\ Liked(reqs[s].cid, reqs[s].user) = lastReq.liked
             /\ ~Disliked(reqs[s].cid, reqs[s].user)
        ELSE /\ Disliked(reqs[s].cid, reqs[s].user) = lastReq.disliked
             /\ ~Liked(reqs[s].cid, reqs[s].user)

(* the second like of a pair by a user who had liked before the pair *)
C4_Witness ==
    \E s \in Slots : SecondOfPair(s) /\ reqs[s].op = "like" /\ lastReq.liked

(* slot s takes the step from arrival to its first answer or to save() *)
Arrives(s) == reqs[s].pc = "idle" /\ reqs'[s].pc # "idle"

(* slot s takes its save() step and the save succeeds *)
Saves(s) == reqs[s].pc = "save" /\ reqs'[s] # reqs[s] /\ reqs'[s].status # 500

OthersKeep(c, u) ==
    \A w \in Users \ {u} :
        /\ Some(comments'[c].likes, w) = Some(comments[c].likes, w)
        /\ Some(comments'[c].dislikes, w) = Some(comments[c].dislikes, w)

(* C5: a dislike by a user who is in likes leaves the user in dislikes and  *)
(* out of likes, a like by a user who is in dislikes leaves the user in     *)
(* likes and out of dislikes, and no other user's membership changes.       *)
C5_SwitchInOneRequest ==
    [][\A s \in Slots : Saves(s) =>
          LET c == reqs[s].cid
              u == reqs[s].user
          IN /\ (reqs[s].op = "dislike" /\ Liked(c, u)) =>
                    /\ Some(comments'[c].dislikes, u)
                    /\ ~Some(comments'[c].likes, u)
                    /\ OthersKeep(c, u)
             /\ (reqs[s].op = "like" /\ Disliked(c, u)) =>
                    /\ Some(comments'[c].likes, u)
                    /\ ~Some(comments'[c].dislikes, u)
                    /\ OthersKeep(c, u)]_vars

(* a dislike has replaced the user's like while another user had reacted *)
C5_Witness ==
    \E s \in Slots :
        /\ ReactionSaved(s) /\ reqs[s].op = "dislike" /\ reqs[s].wasLiked
        /\ Disliked(reqs[s].cid, reqs[s].user)
        /\ \E w \in Users \ {reqs[s].user} : Liked(reqs[s].cid, w) \/ Disliked(reqs[s].cid, w)

(* C6: updateComment and deleteComment on a soft-deleted comment answer     *)
(* not found and change nothing.                                            *)
C6_DeletedIsNotFound ==
    [][\A s \in Slots :
          (/\ Arrives(s)
           /\ reqs'[s].op \in {"update", "delete"}
           /\ Exists(reqs'[s].cid)
           /\ comments[reqs'[s].cid].isDeleted)
          => reqs'[s].pc = "done" /\ reqs'[s].status = 404]_vars

(* C7: once a comment is soft-deleted its likes and dislikes never change.  *)
C7_DeletedReactionsFrozen ==
    [][\A c \in Stored : comments[c].isDeleted =>
          /\ comments'[c].likes = comments[c].likes
          /\ comments'[c].dislikes = comments[c].dislikes]_vars

(* C8: a createComment that passes the parent check names a parent that     *)
(* exists and is not soft-deleted at that time.                             *)
C8_NoReplyToDeleted ==
    [][\A s \in Slots :
          (Arrives(s) /\ reqs'[s].pc = "create" /\ reqs'[s].parent # NoId)
          => Exists(reqs'[s].parent) /\ ~comments[reqs'[s].parent].isDeleted]_vars

(* C9: an updateComment or deleteComment by a user who is not the author is *)
(* answered 403, changes nothing and publishes no event; content and        *)
(* isDeleted change only in the save() of a request made by the author.     *)
C9_AuthorOnly ==
    [][/\ \A s \in Slots :
             (/\ Arrives(s)
              /\ reqs'[s].op \in {"update", "delete"}
              /\ Exists(reqs'[s].cid)
              /\ comments[reqs'[s].cid].author # reqs'[s].user)
             => /\ reqs'[s].pc = "done"
                /\ reqs'[s].status = 403
                /\ reqs'[s].emitted = 0
                /\ comments' = comments
       /\ \A c \in Stored :
             (\/ comments'[c].content # comments[c].content
              \/ comments'[c].isDeleted # comments[c].isDeleted)
             => \E s \in Slots :
                   /\ Saves(s)
                   /\ reqs[s].op \in {"update", "delete"}
                   /\ reqs[s].cid = c
                   /\ reqs[s].user = comments[c].author]_vars

(* a non-author was refused while the comment is stored *)
C9_Witness ==
    \E s \in Slots :
        /\ reqs[s].pc = "done" /\ reqs[s].status = 403
        /\ reqs[s].op \in {"update", "delete"}
        /\ comments[reqs[s].cid].author # reqs[s].user

C11_EditKeepsTheRest ==
    [][\A s \in Slots :
          (reqs[s].op = "update" /\ InFlight(s) /\ reqs'[s] # reqs[s]) =>
             LET c == reqs[s].cid
             IN comments'[c] = IF Saves(s)
                               THEN [comments[c] EXCEPT !.content = comments'[c].content]
                               ELSE comments[c]]_vars

(* an edit has saved its new content after a reaction on the comment was    *)
(* saved between the edit's findById and its save(), and the reaction is    *)
(* in the store                                                             *)
C11_Witness ==
    \E s \in Slots :
        /\ reqs[s].op = "update" /\ reqs[s].pc \in {"hook", "fetch"}
        /\ reqs[s].stale /\ reqs[s].dirty.content
        /\ LET d == comments[reqs[s].cid]
           IN /\ d.content = reqs[s].doc.content
              /\ d.likes # reqs[s].doc.likes

(* C12: deleted is terminal: no step of any request, in any interleaving,   *)
(* takes a comment from isDeleted = TRUE back to FALSE; in particular not   *)
(* the save() of an edit or reaction whose findById preceded the delete's   *)
(* save().                                                                  *)
C12_DeletedIsTerminal ==
    [][\A c \in Stored : comments[c].isDeleted => comments'[c].isDeleted]_vars

(* an edit or reaction that fetched the comment before it was deleted has   *)
(* saved after the delete, and the comment is still deleted                 *)
C12_Witness ==
    \E s \in Slots :
        /\ reqs[s].op \in {"update", "like", "dislike"}
        /\ reqs[s].pc \in {"hook", "fetch"}
        /\ reqs[s].stale /\ ~reqs[s].doc.isDeleted
        /\ reqs[s].dirty # Clean
        /\ comments[reqs[s].cid].isDeleted

Lists(items, c) == \E i \in DOMAIN items : items[i].id = c

(* C13: a soft-deleted comment is in no list getComments can answer with,   *)
(* for any page, sort mode, page number and limit, and in no list           *)
(* getReplies can answer with; every reply of it that is not deleted is in  *)
(* the list of getReplies for it, with parentComment naming it.             *)
C13_DeletedIsHidden ==
    \A c \in Stored : comments[c].isDeleted =>
        /\ \A pageId \in Pages, sort \in Sorts, page \in PageNums, limit \in Limits :
              \A items \in Listings(pageId, sort, page, limit) : ~Lists(items, c)
        /\ \A x \in Ids : \A items \in ReplyListings(x) : ~Lists(items, c)
        /\ \A r \in Stored :
              (~comments[r].isDeleted /\ comments[r].parentComment = c) =>
                 \A items \in ReplyListings(c) :
                    \E i \in DOMAIN items : items[i].id = r /\ items[i].parentComment = c

(* a top-level comment with a reply that is not deleted was soft-deleted    *)
(* by a completed request                                                   *)
C13_Witness ==
    \E c, r \in Stored :
        /\ comments[c].isDeleted /\ comments[c].parentComment = NoId
        /\ ~comments[r].isDeleted /\ comments[r].parentComment = c
        /\ \E s \in Slots : reqs[s].pc = "done" /\ reqs[s].op = "delete"
                             /\ reqs[s].cid = c /\ reqs[s].status = 200

Range(arr) == {arr[i] : i \in DOMAIN arr}

CreateInProgress == \E s \in Slots : reqs[s].op = "create" /\ InFlight(s)

(* C14: whenever no createComment request is in progress, the replies of    *)
(* every comment c are, as a set, the comments whose parentComment is c;    *)
(* a reply whose creation was answered with success is in its parent's      *)
(* replies; and replies never holds a comment whose parentComment is        *)
(* another comment or none.                                                 *)
C14_BackLinks ==
    /\ ~CreateInProgress =>
          \A c \in Stored :
             Range(comments[c].replies) = {r \in Stored : comments[r].parentComment = c}
    /\ \A s \in Slots :
          (/\ reqs[s].pc = "done" /\ reqs[s].op = "create" /\ reqs[s].status = 201
           /\ comments[reqs[s].cid].parentComment # NoId)
          => Some(comments[comments[reqs[s].cid].parentComment].replies, reqs[s].cid)
    /\ \A c \in Stored : \A r \in Range(comments[c].replies) :
          r \in Stored /\ comments[r].parentComment = c

(* C15: no comment's replies holds the same id twice, although the          *)
(* post-save hook runs the back-link update again on every save of a reply. *)
C15_NoDuplicateReplies ==
    \A c \in Stored : NoDuplicates(comments[c].replies)

(* the hook has run again after the save of an edit or reaction on a reply  *)
(* that was already in its parent's replies: no request has overlapped      *)
(* another, so the reply's creation had run its hook before                 *)
C15_Witness ==
    \E s \in Slots :
        /\ overlaps = 0
        /\ reqs[s].op \in {"update", "like", "dislike"}
        /\ reqs[s].pc = "fetch"
        /\ reqs[s].doc.parentComment # NoId
        /\ Some(comments[reqs[s].doc.parentComment].replies, reqs[s].cid)

(* the request in slot s has passed Comment.create or a save() that sent an *)
(* update                                                                   *)
HasWritten(s) ==
    /\ reqs[s].pc \in {"hook", "fetch"}
    /\ reqs[s].op = "create" \/ reqs[s].dirty # Clean

IsFailure(status) == status \notin {0, 200, 201}

(* C16: a mutation request that is answered with a failure has changed      *)
(* nothing: the step that answers the failure leaves the store as it is,    *)
(* and the request had not written to the store before it, also when the    *)
(* step that fails is the post-save hook or the re-fetch.                   *)
C16_AllOrNothing ==
    [][\A s \in Slots :
          (reqs'[s] # reqs[s] /\ reqs'[s].pc = "done" /\ IsFailure(reqs'[s].status))
          => comments' = comments /\ ~HasWritten(s)]_vars

(* C17: while the socket service fails, every request that passes its       *)
(* checks is answered with success (201 for create, 200 otherwise) and its  *)
(* change is in the store when the response is sent.                        *)
C17_EmitNeverFails ==
    [][\A s \in Slots :
          (InFlight(s) /\ reqs'[s].pc = "done") =>
             LET r == reqs[s]
                 d == comments'[IF r.op = "create" /\ r.cid = NoId
                                THEN Len(comments') ELSE r.cid]
             IN /\ reqs'[s].status = IF r.op = "create" THEN 201 ELSE 200
                /\ reqs'[s].emitted = 0
                /\ r.op = "create" => d.content = r.content /\ d.author = r.user
                /\ r.op = "update" => d.content = r.doc.content
                /\ r.op = "delete" => d.isDeleted
                /\ r.op = "like" => Some(d.likes, r.user) = ~r.wasLiked
                /\ r.op = "dislike" => Some(d.dislikes, r.user) = ~r.wasDisliked]_vars

(* a like has been answered with success and is in the store while the      *)
(* socket service fails                                                     *)
C17_Witness ==
    /\ socketService = "failing"
    /\ \E s \in Slots :
          /\ reqs[s].pc = "done" /\ reqs[s].op = "like"
          /\ reqs[s].status = 200 /\ reqs[s].emitted = 0
          /\ Liked(reqs[s].cid, reqs[s].user)

(* slot s holds the response of a getComments request *)
Answered(s) == reqs[s].pc = "done" /\ reqs[s].op = "getComments"

(* the number a sort mode orders by *)
Count(d, sort) ==
    IF sort = "mostLiked" THEN Len(d.likes)
    ELSE IF sort = "mostDisliked" THEN Len(d.dislikes)
    ELSE 0

(* the comments of the page that are top-level and not deleted *)
Visible(pageId) ==
    {c \in Stored : /\ comments[c].pageId = pageId
                    /\ comments[c].parentComment = NoId
                    /\ ~comments[c].isDeleted}

(* C18: every list getComments answers with holds only non-deleted          *)
(* top-level comments of the page, and for any two of them a before b:      *)
(* the count of the sort mode (likes for mostLiked, dislikes for            *)
(* mostDisliked, none for newest) of a is greater, or the counts are equal  *)
(* and a was created no earlier than b.                                     *)
C18_Sorted ==
    \A s \in Slots : Answered(s) =>
        LET items == reqs[s].items
            sort == reqs[s].sort
        IN /\ \A i \in DOMAIN items : items[i].id \in Visible(reqs[s].pageId)
           /\ \A i, j \in DOMAIN items : i < j =>
                 \/ Count(items[i], sort) > Count(items[j], sort)
                 \/ /\ Count(items[i], sort) = Count(items[j], sort)
                    /\ items[i].createdAt >= items[j].createdAt

(* the two pages of a mostLiked listing: on the first the liked comment,    *)
(* which is the oldest, before one without likes; on the second a comment   *)
(* without likes that is older than that one                                *)
C18_Witness ==
    /\ Answered(1) /\ Answered(2)
    /\ reqs[1].sort = "mostLiked" /\ reqs[1].page = 1 /\ reqs[2].page = 2
    /\ Len(reqs[1].items) = 2 /\ Len(reqs[2].items) = 1
    /\ Len(reqs[1].items[1].likes) > Len(reqs[1].items[2].likes)
    /\ reqs[1].items[1].createdAt < reqs[1].items[2].createdAt
    /\ Len(reqs[1].items[2].likes) = Len(reqs[2].items[1].likes)
    /\ reqs[1].items[2].createdAt > reqs[2].items[1].createdAt

(* the size of page p of N items in pages of s: max(0, min(s, N - (p-1)s)) *)
PageSize(N, p, size) ==
    IF (p - 1) * size >= N THEN 0
    ELSE IF N - (p - 1) * size < size THEN N - (p - 1) * size ELSE size

(* every answer has the size of its page, reports the number of visible     *)
(* comments as total, and is a success, also for a page past the end        *)
C19_PageSizes ==
    \A s \in Slots : Answered(s) =>
        LET N == Cardinality(Visible(reqs[s].pageId))
        IN /\ Len(reqs[s].items) = PageSize(N, reqs[s].page, reqs[s].limit)
           /\ reqs[s].total = N
           /\ reqs[s].status = 200

(* the answers for two different pages of one listing share no comment *)
C19_PagesDisjoint ==
    \A s, t \in Slots :
        (Answered(s) /\ Answered(t) /\ reqs[s].page # reqs[t].page) =>
            \A i \in DOMAIN reqs[s].items, j \in DOMAIN reqs[t].items :
                reqs[s].items[i].id # reqs[t].items[j].id

(* once every page 1..ceil(N/s) is answered, each visible comment is in one *)
C19_PagesCover ==
    LET N == Cardinality(Visible("p1"))
        pages == {reqs[s].page : s \in {t \in Slots : Answered(t)}}
    IN \A size \in Limits :
          (/\ \A s \in Slots : Answered(s) => reqs[s].limit = size
           /\ \A p \in PageNums : (p - 1) * size < N => p \in pages)
          => \A c \in Visible("p1") :
                \E s \in Slots : Answered(s) /\ Lists(reqs[s].items, c)

(* C19: getComments answers page p with max(0, min(s, N - (p-1)s)) items    *)
(* and total N, with success also past the end; the pages of one listing    *)
(* are pairwise disjoint and together hold each of the N comments once,     *)
(* when nothing changes the store between the requests.                     *)
C19_Pagination ==
    C19_PageSizes /\ C19_PagesDisjoint /\ C19_PagesCover

(* C20: a createComment or updateComment whose content is empty after       *)
(* trimming or longer than 2000 characters, and a createComment whose       *)
(* pageId is empty, never reaches its handler: no such request is in        *)
(* flight, and the answer 400 leaves the store as it is; every stored       *)
(* comment has a content of 1 to 2000 characters and a pageId that is not   *)
(* empty.                                                                   *)
C20_Validated ==
    /\ [](/\ \A c \in Stored :
              /\ Length(comments[c].content) >= 1
              /\ Length(comments[c].content) <= 2000
              /\ comments[c].pageId # ""
          /\ \A s \in Slots :
              (InFlight(s) /\ reqs[s].pc # "create" /\ reqs[s].op = "update") =>
                 /\ Length(reqs[s].doc.content) >= 1
                 /\ Length(reqs[s].doc.content) <= 2000
          /\ \A s \in Slots :
              reqs[s].pc = "create" =>
                 /\ Length(reqs[s].content) >= 1
                 /\ Length(reqs[s].content) <= 2000
                 /\ reqs[s].pageId \notin {"", " "})
    /\ [][\A s \in Slots :
            (reqs'[s] # reqs[s] /\ reqs'[s].pc = "done" /\ reqs'[s].status \in {400, 500})
            => /\ comments' = comments
               /\ reqs'[s].status = 400
               /\ reqs'[s].op = "create" =>
                     \/ reqs'[s].content \in {"", " ", "long"}
                     \/ reqs'[s].pageId \in {"", " "}
               /\ reqs'[s].op = "update" => reqs'[s].content \in {"", " ", "long"}]_vars

(* the author's edit of a stored comment to a blank content was answered    *)
(* 400 and the comment has its content                                      *)
C20_Witness ==
    \E s \in Slots :
        /\ reqs[s].pc = "done" /\ reqs[s].status = 400 /\ reqs[s].op = "update"
        /\ reqs[s].content = " "
        /\ Exists(reqs[s].cid)
        /\ comments[reqs[s].cid].author = reqs[s].user
        /\ comments[reqs[s].cid].content = "a"

(* ----------------------------------------------------------- registration *)
(* User.findOne({$or: [{email}, {username}]}): a stored user with the email *)
(* or the username                                                          *)
ExistingUser(username, email) ==
    {i \in 1..Len(users) : users[i].email = email \/ users[i].username = username}

(* the unique indexes of the User collection: an insert of an email or a    *)
(* username that is stored is refused with a duplicate-key error            *)
(* faulty variant: the collection has no unique index                       *)
UniqueIndexesMissing(username, email) == FALSE

DuplicateKey(username, email) ==
    \E i \in 1..Len(users) : users[i].email = email \/ users[i].username = username

(* register up to the existing-user lookup: 409 when one is found *)
register(s, username, email) ==
    /\ CanBegin(s)
    /\ Arrived
    /\ LET r == [Start(s, "register", NoUser, NoId) EXCEPT
                    !.username = username, !.email = email]
       IN Step(s, r, IF ExistingUser(username, email) # {}
                     THEN [Responded(r, 409, 0) EXCEPT
                              !.username = username, !.email = email]
                     ELSE [r EXCEPT !.pc = "createUser"])
    /\ UNCHANGED <<comments, serial, socketService, users, io>>

(* User.create and the 201 response; the catch answers 500 when the insert  *)
(* is refused                                                               *)
createUser(s) ==
    /\ reqs[s].pc = "createUser"
    /\ LET r == reqs[s]
           refused == DuplicateKey(r.username, r.email)
       IN /\ users' = IF refused THEN users
                      ELSE Append(users, [username |-> r.username, email |-> r.email])
          /\ Step(s, r, [Responded(r, IF refused THEN 500 ELSE 201, 0) EXCEPT
                            !.username = r.username, !.email = r.email])
    /\ UNCHANGED <<comments, issued, overlaps, serial, socketService, io>>

(* no user is registered yet; register requests may overlap *)
RegisterInit ==
    /\ comments = <<>>
    /\ reqs = [s \in Slots |-> IdleReq]
    /\ issued = 0
    /\ overlaps = 0
    /\ lastReq = NoReq
    /\ serial = FALSE
    /\ socketService = "ready"
    /\ users = <<>>
    /\ io = NoSockets

RegisterNext ==
    \E s \in Slots :
        \/ \E username \in Usernames, email \in Emails : register(s, username, email)
        \/ createUser(s)
        \/ Retire(s)

RegisterSpec == RegisterInit /\ [][RegisterNext]_vars

(* C21: no two stored users share an email and no two share a username; a   *)
(* register request whose email or username is stored when it looks up is   *)
(* answered 409, one whose email or username was stored between its lookup  *)
(* and its insert is answered 500, and neither creates a user; every other  *)
(* register request is answered 201 and creates exactly its user            *)
C21_UniqueIdentity ==
    /\ [](\A i, j \in 1..Len(users) :
            i # j => /\ users[i].email # users[j].email
                     /\ users[i].username # users[j].username)
    /\ [][\A s \in Slots :
            (reqs'[s] # reqs[s] /\ reqs'[s].pc = "done" /\ reqs'[s].op = "register") =>
               LET taken == \E i \in 1..Len(users) :
                               \/ users[i].email = reqs'[s].email
                               \/ users[i].username = reqs'[s].username
               IN IF taken
                  THEN /\ users' = users
                       /\ reqs'[s].status = (IF reqs[s].pc = "createUser" THEN 500 ELSE 409)
                  ELSE /\ reqs'[s].status = 201
                       /\ users' = Append(users, [username |-> reqs'[s].username,
                                                  email |-> reqs'[s].email])]_vars

(* two register requests with the same email and different usernames both   *)
(* looked up before either inserted: one was answered 201, the other 500,   *)
(* and one user is stored                                                   *)
C21_Witness ==
    /\ overlaps = 1
    /\ Len(users) = 1
    /\ reqs[1].pc = "done" /\ reqs[1].op = "register" /\ reqs[1].status = 201
    /\ reqs[2].pc = "done" /\ reqs[2].op = "register" /\ reqs[2].status = 500
    /\ reqs[1].email = reqs[2].email
    /\ reqs[1].username # reqs[2].username

(* --------------------------------------------------------- authentication *)
(* the tokens a request may carry: t1 and t2 were signed for u1 and u2 by   *)
(* generateToken; "forged" carries the payload of u1 under another key      *)
Tokens == {"t1", "t2", "forged"}

(* the authorization headers: none, another scheme, Bearer with no token,   *)
(* Bearer with a token                                                      *)
Headers ==
    {NoHeader, [scheme |-> "Basic", token |-> "t1"], [scheme |-> "Bearer", token |-> ""]}
    \cup {[scheme |-> "Bearer", token |-> k] : k \in Tokens}

(* faulty variant: the payload is decoded without verifying the signature *)
verifyTokenUnverified(token) ==
    CASE token = "t1" -> "u1"
      [] token = "t2" -> "u2"
      [] token = "forged" -> "u1"
      [] OTHER -> NoUser

(* jwt.verify: the userId of the payload, NoUser when it throws *)
verifyToken(token) ==
    CASE token = "t1" -> "u1"
      [] token = "t2" -> "u2"
      [] OTHER -> NoUser

(* the authenticate middleware: req.user.userId, NoUser when it answers 401 *)
authenticate(header) ==
    IF header.scheme # "Bearer" THEN NoUser
    ELSE IF header.token = "" THEN NoUser
    ELSE verifyToken(header.token)

(* the routes that put authenticate before the handler, and those that do   *)
(* not                                                                      *)
Guarded == {"create", "update", "delete", "like", "dislike"}
Open == {"getComments", "getReplies"}

(* a request arrives at a route with its header and with a body that names  *)
(* a user as author                                                         *)
receive(s, op, header, bodyAuthor) ==
    /\ CanBegin(s)
    /\ issued < MaxAuthRequests
    /\ reqs[s] = IdleReq
    /\ reqs' = [reqs EXCEPT ![s] =
                  [IdleReq EXCEPT !.op = op, !.auth = header, !.bodyAuthor = bodyAuthor]]
    /\ UNCHANGED <<comments, issued, overlaps, serial, lastReq, socketService, users, io>>

(* authenticate answers 401 *)
unauthorized(s) ==
    /\ CanBegin(s)
    /\ reqs[s].op \in Guarded
    /\ authenticate(reqs[s].auth) = NoUser
    /\ Step(s, reqs[s], Responded(reqs[s], 401, 0))
    /\ Arrived
    /\ UNCHANGED <<comments, serial, socketService, users, io>>

(* authenticate calls next() with req.user set from the token *)
authenticated(s, op, u) ==
    /\ reqs[s].op = op
    /\ authenticate(reqs[s].auth) = u

authCreate(s, u, content, pageId, parent) ==
    authenticated(s, "create", u) /\ createComment(s, u, content, pageId, parent)

authUpdate(s, u, c, content) ==
    authenticated(s, "update", u) /\ updateComment(s, u, c, content)

authDelete(s, u, c) ==
    authenticated(s, "delete", u) /\ deleteComment(s, u, c)

authLike(s, u, c) ==
    authenticated(s, "like", u) /\ likeComment(s, u, c)

authDislike(s, u, c) ==
    authenticated(s, "dislike", u) /\ dislikeComment(s, u, c)

(* the first page of a listing, and the replies of a comment *)
openComments(s, pageId, sort) ==
    reqs[s].op = "getComments" /\ getComments(s, pageId, sort, 1, MaxComments)

openReplies(s, c) ==
    reqs[s].op = "getReplies" /\ getReplies(s, c)

AuthNext ==
    \E s \in Slots :
        \/ \E op \in Guarded \cup Open, header \in Headers, bodyAuthor \in Users :
              receive(s, op, header, bodyAuthor)
        \/ unauthorized(s)
        \/ \E u \in Users, content \in NewContents, pageId \in Pages, parent \in {NoId} \cup Ids :
              authCreate(s, u, content, pageId, parent)
        \/ \E u \in Users, c \in Ids, content \in Contents : authUpdate(s, u, c, content)
        \/ \E u \in Users, c \in Ids : authDelete(s, u, c)
        \/ \E u \in Users, c \in Ids : authLike(s, u, c)
        \/ \E u \in Users, c \in Ids : authDislike(s, u, c)
        \/ \E pageId \in Pages, sort \in Sorts : openComments(s, pageId, sort)
        \/ aggregateComments(s)
        \/ \E c \in Ids : openReplies(s, c)
        \/ create(s)
        \/ save(s)
        \/ postSave(s)
        \/ refetch(s)
        \/ Retire(s)

(* requests with any authorization header, one at a time *)
AuthSpec == SerialInit /\ [][AuthNext]_vars

(* a header that carries a token signed for a user, and that user *)
ValidBearer(h) == h.scheme = "Bearer" /\ h.token \in {"t1", "t2"}
TokenUser(h) == IF h.token = "t1" THEN "u1" ELSE IF h.token = "t2" THEN "u2" ELSE NoUser

(* C22: a create, update, delete, like or dislike request without a valid   *)
(* bearer token is answered 401, changes no comment and publishes no event; *)
(* getComments and getReplies are answered 200 whatever the header; the     *)
(* author of an inserted comment and the user whose membership in likes or  *)
(* dislikes changes is the user of the request's verified token, whatever   *)
(* the body names                                                           *)
C22_MutationsAuthenticated ==
    /\ [](\A s \in Slots :
            /\ (reqs[s].pc = "done" /\ reqs[s].op \in Open) => reqs[s].status = 200
            /\ (InFlight(s) /\ reqs[s].op \in Guarded) =>
                  ValidBearer(reqs[s].auth) /\ reqs[s].user = TokenUser(reqs[s].auth))
    /\ [][/\ \A s \in Slots :
               /\ (reqs[s].pc = "idle" /\ reqs[s].op \in Guarded /\ reqs'[s] # reqs[s]
                   /\ ~ValidBearer(reqs[s].auth))
                  => /\ reqs'[s].pc = "done" /\ reqs'[s].status = 401
                     /\ reqs'[s].emitted = 0
                     /\ comments' = comments
               /\ (reqs[s].pc = "idle" /\ reqs[s].op \in Open /\ reqs'[s] # reqs[s])
                  => /\ reqs'[s].pc \in {"aggregate", "done"}
                     /\ reqs'[s].pc = "done" => reqs'[s].status = 200
               /\ (reqs[s].pc = "create" /\ Len(comments') > Len(comments))
                  => comments'[Len(comments')].author = TokenUser(reqs[s].auth)
          /\ \A c \in Stored, u \in Users :
               (\/ Some(comments'[c].likes, u) # Some(comments[c].likes, u)
                \/ Some(comments'[c].dislikes, u) # Some(comments[c].dislikes, u))
               => \E s \in Slots :
                     /\ reqs[s].pc = "save" /\ reqs[s].op \in {"like", "dislike"}
                     /\ ValidBearer(reqs[s].auth) /\ TokenUser(reqs[s].auth) = u]_vars

(* a like request with a forged token of u1, with a body that names u2, was *)
(* answered 401 while the stored comment, whose author is the user of the   *)
(* token that created it, has no likes                                      *)
C22_Witness ==
    \E s \in Slots :
        /\ reqs[s].pc = "done" /\ reqs[s].op = "like" /\ reqs[s].status = 401
        /\ reqs[s].auth = [scheme |-> "Bearer", token |-> "forged"]
        /\ reqs[s].bodyAuthor = "u2"
        /\ Len(comments) = 1
        /\ comments[1].author = "u2"
        /\ comments[1].likes = <<>>

(* C23: a comment is inserted with the author, pageId and parentComment of  *)
(* its create request, and no step changes the id, author, pageId or        *)
(* parentComment of a stored comment or removes a comment, whatever the     *)
(* interleaving of edits, soft deletes, likes and dislikes                  *)
C23_IdentityImmutable ==
    [][/\ Len(comments') >= Len(comments)
       /\ \A c \in Stored :
            /\ comments'[c].id = comments[c].id
            /\ comments'[c].author = comments[c].author
            /\ comments'[c].pageId = comments[c].pageId
            /\ comments'[c].parentComment = comments[c].parentComment
       /\ \A s \in Slots :
            (reqs[s].pc = "create" /\ reqs'[s] # reqs[s] /\ reqs'[s].pc # "done") =>
               /\ Len(comments') = Len(comments) + 1
               /\ comments'[Len(comments')].id = Len(comments')
               /\ comments'[Len(comments')].author = reqs[s].user
               /\ comments'[Len(comments')].pageId = reqs[s].pageId
               /\ comments'[Len(comments')].parentComment = reqs[s].parent]_vars

(* a reply of u2 to a comment of u1 was soft-deleted by a request that      *)
(* overlapped another: it is stored with its author, page and parent        *)
C23_Witness ==
    /\ Len(comments) = 2
    /\ overlaps = 1
    /\ comments[1].author = "u1"
    /\ comments[2].author = "u2"
    /\ comments[2].parentComment = 1
    /\ comments[2].pageId = "p1"
    /\ comments[2].isDeleted
    /\ AllQuiet

(* ----------------------------------------------------------------- events *)
(* the socket service is available, or getSocketService or the emit throws  *)
EventInit == Store0 /\ serial = TRUE /\ socketService \in {"ready", "failing"}

(* the mutating routes; the body names no other user than u1 *)
EventNext ==
    \E s \in Slots :
        \/ \E op \in Guarded, header \in Headers : receive(s, op, header, "u1")
        \/ unauthorized(s)
        \/ \E u \in Users, content \in NewContents, pageId \in Pages, parent \in {NoId} \cup Ids :
              authCreate(s, u, content, pageId, parent)
        \/ \E u \in Users, c \in Ids, content \in Contents : authUpdate(s, u, c, content)
        \/ \E u \in Users, c \in Ids : authDelete(s, u, c)
        \/ \E u \in Users, c \in Ids : authLike(s, u, c)
        \/ \E u \in Users, c \in Ids : authDislike(s, u, c)
        \/ create(s)
        \/ save(s)
        \/ postSave(s)
        \/ refetch(s)
        \/ fail(s)
        \/ Retire(s)

(* requests with any authorization header, one at a time, against a store   *)
(* whose operations may fail                                                *)
EventSpec == EventInit /\ [][EventNext]_vars

IsSuccess(status) == status \in {200, 201}

(* the step answers the mutation of slot s *)
Answers(s) ==
    /\ reqs'[s] # reqs[s]
    /\ reqs'[s].pc = "done"
    /\ reqs'[s].op \in Guarded

(* what the request of slot s set on its document is in the store *)
IsSaved(s) ==
    LET r == reqs[s]
        c == reqs'[s].cid
    IN /\ c \in 1..Len(comments')
       /\ r.op = "create" => comments'[c].author = r.user
       /\ r.op = "update" => comments'[c].content = r.doc.content
       /\ r.op = "delete" => comments'[c].isDeleted
       /\ r.op \in {"like", "dislike"} =>
             /\ Some(comments'[c].likes, r.user) = Some(r.doc.likes, r.user)
             /\ Some(comments'[c].dislikes, r.user) = Some(r.doc.dislikes, r.user)

(* a mutation answered 401, 403, 404 or 500 publishes no event, and one     *)
(* answered with success publishes at most one, of the kind of the request, *)
(* to the room of the page of the affected comment, when what it changed is *)
(* in the store                                                             *)
EventsInOrder ==
    \A s \in Slots :
        Answers(s) =>
           IF IsSuccess(reqs'[s].status)
           THEN /\ IsSaved(s)
                /\ reqs'[s].emitted <= 1
                /\ reqs'[s].emitted = 1 =>
                      /\ reqs'[s].event.kind = EventKind(reqs'[s].op)
                      /\ reqs'[s].event.room = <<"page:", comments'[reqs'[s].cid].pageId>>
                /\ reqs'[s].emitted = 0 => reqs'[s].event = NoEvent
           ELSE /\ reqs'[s].status \in {401, 403, 404, 500}
                /\ reqs'[s].emitted = 0
                /\ reqs'[s].event = NoEvent

(* C24 as stated: every mutation answered with success publishes exactly    *)
(* one event of its kind to the room of the page of the affected comment,   *)
(* after its change is saved, and one answered 401, 403, 404 or 500         *)
(* publishes none                                                           *)
C24_ExactlyOneEvent ==
    [][EventsInOrder /\ \A s \in Slots :
          (Answers(s) /\ IsSuccess(reqs'[s].status)) => reqs'[s].emitted = 1]_vars

(* C24 amended: every mutation answered with success publishes exactly one  *)
(* event when the socket service is available and none when the emit        *)
(* throws; the event is of the kind of the request, goes to the room of the *)
(* page of the affected comment and is published once the change is saved;  *)
(* a mutation answered 401, 403, 404 or 500 publishes none                  *)
C24_OneEventWhenAvailable ==
    [][EventsInOrder /\ \A s \in Slots :
          (Answers(s) /\ IsSuccess(reqs'[s].status)) =>
             (reqs'[s].emitted = 1 <=> socketService = "ready")]_vars

(* while the socket service is available the author's edit of a stored      *)
(* comment to "b" was answered 200 with one updateComment event to the room *)
(* of the comment's page, and the comment has the content                   *)
C24_Witness ==
    \E s \in Slots :
        /\ socketService = "ready"
        /\ reqs[s].pc = "done" /\ reqs[s].op = "update" /\ reqs[s].status = 200
        /\ reqs[s].emitted = 1
        /\ reqs[s].event = [kind |-> "updateComment", room |-> <<"page:", "p1">>]
        /\ Exists(reqs[s].cid)
        /\ comments[reqs[s].cid].content = "b"

(* ---------------------------------------------------------------- sockets *)
(* events emitted through the server in a run *)
MaxEvents == 2

(* the tokens of a handshake: none, one signed for u1, one that is not valid *)
HandshakeTokens == {"", "t1", "forged"}

(* a connection: the optional authentication accepts every handshake, with  *)
(* the user of a valid token and as anonymous otherwise                     *)
connect(k, token) ==
    /\ ~io.sockets[k].connected
    /\ io' = [io EXCEPT !.sockets[k] =
                [Disconnected EXCEPT !.connected = TRUE,
                                     !.user = IF token = "" THEN NoUser
                                              ELSE verifyToken(token)]]
    /\ UNCHANGED <<comments, reqs, issued, overlaps, serial, lastReq, socketService, users>>

(* faulty variant: only the sockets of authenticated users join a room *)
JoinedIfAuthenticated(socket, pageId) ==
    IF socket.user = NoUser THEN socket.rooms ELSE socket.rooms \cup {Room(pageId)}

(* socket.join(`page:${pageId}`) *)
Joined(socket, pageId) == socket.rooms \cup {Room(pageId)}

(* the joinPage handler *)
joinPage(k, pageId) ==
    /\ io.sockets[k].connected
    /\ io' = [io EXCEPT !.sockets[k].rooms = Joined(io.sockets[k], pageId),
                        !.sockets[k].lastSent[pageId] = "joinPage"]
    /\ UNCHANGED <<comments, reqs, issued, overlaps, serial, lastReq, socketService, users>>

(* the leavePage handler: socket.leave(`page:${pageId}`) *)
leavePage(k, pageId) ==
    /\ io.sockets[k].connected
    /\ io' = [io EXCEPT !.sockets[k].rooms = @ \ {Room(pageId)},
                        !.sockets[k].lastSent[pageId] = "leavePage"]
    /\ UNCHANGED <<comments, reqs, issued, overlaps, serial, lastReq, socketService, users>>

(* the socket disconnects: it is in no room any more *)
disconnect(k) ==
    /\ io.sockets[k].connected
    /\ io' = [io EXCEPT !.sockets[k] = Disconnected]
    /\ UNCHANGED <<comments, reqs, issued, overlaps, serial, lastReq, socketService, users>>

(* io.to(room).emit(kind, payload) of the emit methods: the event reaches   *)
(* the sockets in the room                                                  *)
emit(op, pageId) ==
    /\ io.emitted < MaxEvents
    /\ LET event == [kind |-> EventKind(op), room |-> Room(pageId)]
       IN io' = [sockets |-> [k \in SocketIds |->
                                IF event.room \in io.sockets[k].rooms
                                THEN [io.sockets[k] EXCEPT !.received = @ + 1,
                                                           !.inbox = event]
                                ELSE io.sockets[k]],
                 emitted |-> io.emitted + 1,
                 last |-> event]
    /\ UNCHANGED <<comments, reqs, issued, overlaps, serial, lastReq, socketService, users>>

SocketNext ==
    \/ \E k \in SocketIds, token \in HandshakeTokens : connect(k, token)
    \/ \E k \in SocketIds, pageId \in RoomPages : joinPage(k, pageId)
    \/ \E k \in SocketIds, pageId \in RoomPages : leavePage(k, pageId)
    \/ \E k \in SocketIds : disconnect(k)
    \/ \E op \in {"create", "like"}, pageId \in RoomPages : emit(op, pageId)

(* sockets connect, join and leave pages while events are emitted *)
SocketSpec == Init /\ [][SocketNext]_vars

(* C25: every handshake is accepted, with or without a valid token; an      *)
(* event emitted for page P reaches a connected socket exactly when the     *)
(* last of joinPage(P) and leavePage(P) it sent is joinPage(P), whoever it  *)
(* is, and a socket that it does not reach receives nothing                 *)
C25_PageScoped ==
    /\ [](\A k \in SocketIds :
            /\ ~io.sockets[k].connected => io.sockets[k] = Disconnected
            /\ ENABLED connect(k, "") <=> ~io.sockets[k].connected
            /\ ENABLED connect(k, "forged") <=> ~io.sockets[k].connected)
    /\ [][io'.emitted # io.emitted =>
            /\ io'.emitted = io.emitted + 1
            /\ \A k \in SocketIds, P \in RoomPages :
                 io'.last.room = <<"page:", P>> =>
                    IF io.sockets[k].connected /\ io.sockets[k].lastSent[P] = "joinPage"
                    THEN io'.sockets[k] = [io.sockets[k] EXCEPT !.received = @ + 1,
                                                                !.inbox = io'.last]
                    ELSE io'.sockets[k] = io.sockets[k]]_vars

(* an anonymous socket that joined p1 and p2 and left p2, and a socket of   *)
(* u1 that joined p2: an event for p2 has reached the second only           *)
C25_Witness ==
    /\ io.emitted = 1
    /\ io.last.room = <<"page:", "p2">>
    /\ io.sockets[1].connected /\ io.sockets[1].user = NoUser
    /\ io.sockets[1].lastSent = [p \in RoomPages |-> IF p = "p1" THEN "joinPage" ELSE "leavePage"]
    /\ io.sockets[1].received = 0
    /\ io.sockets[2].connected /\ io.sockets[2].user = "u1"
    /\ io.sockets[2].lastSent["p2"] = "joinPage"
    /\ io.sockets[2].received = 1
    /\ io.sockets[2].inbox = io.last

(* how many times u is in the array *)
Occurrences(arr, u) == Cardinality({i \in 1..Len(arr) : arr[i] = u})

(* the array a reaction request toggles, in a stored comment *)
Target(op, d) == IF op = "like" THEN d.likes ELSE d.dislikes

(* C26: when the save() of a like or dislike request succeeds, the message  *)
(* its response will carry is "Like removed" / "Dislike removed" exactly    *)
(* when the save took the user out of the array, and "Comment liked" /      *)
(* "Comment disliked" exactly when the save put the user into the array;    *)
(* after the first the user is not in the stored array and after the second *)
(* the user is in it                                                        *)
C26_MessageMatchesChange ==
    [][\A s \in Slots :
          (/\ reqs[s].pc = "save" /\ reqs[s].op \in {"like", "dislike"}
           /\ reqs'[s] # reqs[s]
           /\ ~(reqs'[s].pc = "done" /\ reqs'[s].status = 500))
          => LET r == reqs[s]
                 before == Target(r.op, comments[r.cid])
                 after == Target(r.op, comments'[r.cid])
                 message == Message(r.op, r.already)
                 removed == Some(before, r.user) /\ ~Some(after, r.user)
                 added == Occurrences(after, r.user) = Occurrences(before, r.user) + 1
             IN /\ message \in {"Like removed", "Dislike removed"} <=> removed
                /\ message \in {"Comment liked", "Comment disliked"} <=> added
                /\ removed # added
                /\ reqs'[s].already = r.already /\ reqs'[s].op = r.op]_vars

(* the save() of a like request that found the user in likes has           *)
(* completed: the user is not in likes                                      *)
C26_Witness ==
    \E s \in Slots :
        /\ reqs[s].pc = "fetch" /\ reqs[s].op = "like"
        /\ reqs[s].already
        /\ Message(reqs[s].op, reqs[s].already) = "Like removed"
        /\ ~Liked(reqs[s].cid, reqs[s].user)

(* -------------------------------------------------- overlapping reactions *)
(* the likes or dislikes of a stored comment that requests sent one at a    *)
(* time have left                                                           *)
ReactionLists == {<<>>, <<"u1">>, <<"u2">>, <<"u1", "u2">>, <<"u2", "u1">>}

(* one comment is stored, with reactions of the users: each user is in at   *)
(* most one of likes and dislikes                                           *)
ReactInit ==
    /\ \E likes \in ReactionLists, dislikes \in ReactionLists :
          /\ \A u \in Users : ~(Some(likes, u) /\ Some(dislikes, u))
          /\ comments = <<[NewComment(1, "a", "u1", "p1", NoId) EXCEPT
                              !.likes = likes, !.dislikes = dislikes,
                              !.v = Len(likes) + Len(dislikes)]>>
    /\ reqs = [s \in Slots |-> IdleReq]
    /\ issued = 0
    /\ overlaps = 0
    /\ lastReq = NoReq
    /\ serial = FALSE
    /\ socketService = "ready"
    /\ users = Registered
    /\ io = NoSockets

ReactNext ==
    \E s \in Slots :
        \/ \E u \in Users, c \in Ids : likeComment(s, u, c)
        \/ \E u \in Users, c \in Ids : dislikeComment(s, u, c)
        \/ save(s)
        \/ refetch(s)
        \/ Retire(s)

(* like and dislike requests on a stored comment, which may overlap *)
ReactSpec == ReactInit /\ [][ReactNext]_vars

(* the save() of a reaction request has succeeded and its response is not   *)
(* yet sent                                                                 *)
ReactionIsSaved(s) == reqs[s].pc = "fetch" /\ reqs[s].op \in {"like", "dislike"}

(* the membership of the user of r after r alone: the toggle of what r read *)
ExpectedLiked(r) == r.op = "like" /\ ~r.wasLiked
ExpectedDisliked(r) == r.op = "dislike" /\ ~r.wasDisliked

(* C27: when the only two requests of a run are reactions of different      *)
(* users on one comment that were in flight together, and the save() of     *)
(* each has succeeded, each user's membership in likes and in dislikes is   *)
(* what that user's request makes of the membership it read, which is the   *)
(* result of the two requests run one after the other in either order; and  *)
(* no successful save() of a reaction changes the membership of another     *)
(* user, so no write erases the reaction of another request                 *)
C27_NoLostReaction ==
    /\ [](\A s \in Slots, t \in Slots :
            (/\ issued = 2
             /\ s # t
             /\ ReactionIsSaved(s) /\ ReactionIsSaved(t)
             /\ reqs[s].cid = reqs[t].cid
             /\ reqs[s].user # reqs[t].user)
            => /\ Liked(reqs[s].cid, reqs[s].user) = ExpectedLiked(reqs[s])
               /\ Disliked(reqs[s].cid, reqs[s].user) = ExpectedDisliked(reqs[s]))
    /\ [][\A s \in Slots :
            (reqs[s].pc = "save" /\ reqs[s].op \in {"like", "dislike"} /\ reqs'[s].pc = "fetch")
            => \A v \in Users \ {reqs[s].user} :
                  /\ Some(comments'[reqs[s].cid].likes, v) = Some(comments[reqs[s].cid].likes, v)
                  /\ Some(comments'[reqs[s].cid].dislikes, v)
                        = Some(comments[reqs[s].cid].dislikes, v)]_vars

(* a user took back a like while another user's dislike, which had read the *)
(* comment before, was in flight; both saves have succeeded, the like is    *)
(* gone and the dislike is stored                                           *)
C27_Witness ==
    \E s \in Slots, t \in Slots :
        /\ ReactionIsSaved(s) /\ ReactionIsSaved(t)
        /\ reqs[s].cid = reqs[t].cid
        /\ reqs[s].user # reqs[t].user
        /\ reqs[s].op = "like" /\ reqs[s].wasLiked
        /\ reqs[t].op = "dislike" /\ ~reqs[t].wasDisliked /\ reqs[t].stale
        /\ ~Liked(reqs[s].cid, reqs[s].user)
        /\ Disliked(reqs[t].cid, reqs[t].user)

(* ------------------------------------------------------ replies and pages *)
(* comments and replies are created on two pages, one request at a time *)
PagesNext ==
    \E s \in Slots :
        \/ \E u \in Users, content \in NewContents, pageId \in RoomPages,
               parent \in {NoId} \cup Ids :
              createComment(s, u, content, pageId, parent)
        \/ create(s)
        \/ postSave(s)
        \/ refetch(s)
        \/ Retire(s)

PagesSpec == SerialInit /\ [][PagesNext]_vars

(* C28: every stored reply has the pageId of the comment its parentComment  *)
(* refers to, and the newComment event of a reply went to the room of the   *)
(* parent's page                                                            *)
C28_ReplyOnParentPage ==
    /\ \A c \in Stored :
          Exists(comments[c].parentComment) =>
             comments[c].pageId = comments[comments[c].parentComment].pageId
    /\ \A s \in Slots :
          (/\ reqs[s].pc = "done" /\ reqs[s].op = "create" /\ reqs[s].status = 201
           /\ Exists(reqs[s].cid)
           /\ Exists(comments[reqs[s].cid].parentComment))
          => reqs[s].event.room
                = <<"page:", comments[comments[reqs[s].cid].parentComment].pageId>>
====
